---------------------------- MODULE Spec2Model ----------------------------
(***************************************************************************)
(* A model of bb_tracking's feature kernels (features.py) and of its       *)
(* training-pair pipeline (training/detection_data_generation.py).         *)
(*                                                                         *)
(* Numbers.  The code computes in floating point.  The model computes      *)
(* exactly, on integer inputs:                                             *)
(*   - timestamps are integers, positions are integer-valued quotients;    *)
(*   - an angle is an integer number of quarter turns (pi/2), so that      *)
(*     2*pi is FullTurn and sin, cos take the values -1, 0, 1;             *)
(*   - a bit probability is an integer number of hundredths (0.5 is Half); *)
(*   - a quotient n/d is the record Rat(n, d), a value sqrt(s)/d is the    *)
(*     record Root(s, d), and the floating point NaN is the record NaN.    *)
(* Python's None is the record None; a bit vector that is None is NoBits.  *)
(***************************************************************************)
EXTENDS Integers, Sequences, FiniteSets, TLC

None == [none |-> TRUE]
\* A missing bit vector (bit_probabilities is None, an undefined identity):
\* the vector of no bits; a vector that is present has NBits >= 1 bits.
NoBits == <<>>
\* A variable that is None or a list holds None or Some(list).
Some(v) == [value |-> v]
NaN == [nan |-> TRUE]
Rat(n, d) == [num |-> n, den |-> d]
Root(s, d) == [sq |-> s, den |-> d]

Abs(n) == IF n < 0 THEN -n ELSE n
Min(a, b) == IF a <= b THEN a ELSE b
Max(a, b) == IF a >= b THEN a ELSE b

\* 2*pi in quarter turns (features.py: max = np.pi*2).
FullTurn == 4
\* The hard decision threshold 0.5 of a bit probability, in hundredths.
Half == 50
\* One whole (1.0) in hundredths.
One == 100

DetectionTypes == {"TaggedBee", "UntaggedBee", "BeeOnGlass", "BeeInCell"}

RECURSIVE SumSeq(_)
SumSeq(s) == IF s = <<>> THEN 0 ELSE Head(s) + SumSeq(Tail(s))

RECURSIVE MinSeq(_)
MinSeq(s) == IF Len(s) = 1 THEN s[1] ELSE Min(Head(s), MinSeq(Tail(s)))

RECURSIVE MaxSeq(_)
MaxSeq(s) == IF Len(s) = 1 THEN s[1] ELSE Max(Head(s), MaxSeq(Tail(s)))

\* Python's s[-n:] : the last n elements, or all of s when it is shorter.
LastN(s, n) == IF Len(s) <= n THEN s ELSE SubSeq(s, Len(s) - n + 1, Len(s))
\* Python's s[:n] : the first n elements, or all of s when it is shorter.
FirstN(s, n) == IF Len(s) <= n THEN s ELSE SubSeq(s, 1, n)

(***************************************************************************)
(* Distance kernels (features.py).                                         *)
(***************************************************************************)
detection_temporal_distance(detection0, detection1) ==
    detection1.timestamp_posix - detection0.timestamp_posix

\* A coordinate is a Rat.  sqrt((x1 - x0)^2 + (y1 - y0)^2) is kept as the
\* square under the root, over the common denominator.
euclidean_distance(x0, y0, x1, y1) ==
    LET dxn == x1.num * x0.den - x0.num * x1.den
        dxd == x0.den * x1.den
        dyn == y1.num * y0.den - y0.num * y1.den
        dyd == y0.den * y1.den
    IN  Root((dxn * dyd) * (dxn * dyd) + (dyn * dxd) * (dyn * dxd),
             Abs(dxd * dyd))

\* norm is NaN (the default: the signed temporal distance) or Rat(n, 1).
NormOf(detection0, detection1, norm) ==
    IF norm = NaN
    THEN detection_temporal_distance(detection0, detection1)
    ELSE norm.num

detection_distance(detection0, detection1, norm) ==
    LET e == euclidean_distance(detection0.x_hive, detection0.y_hive,
                                detection1.x_hive, detection1.y_hive)
    IN  Root(e.sq, e.den * NormOf(detection0, detection1, norm))

\* The comparison  value > limit  of a Root value with an integer limit >= 0.
RootExceeds(r, limit) ==
    /\ r.den > 0
    /\ r.sq > (limit * r.den) * (limit * r.den)

\* sin and cos of a whole number of quarter turns.
Sin(a) == CASE a % FullTurn = 0 -> 0
            [] a % FullTurn = 1 -> 1
            [] a % FullTurn = 2 -> 0
            [] a % FullTurn = 3 -> -1
Cos(a) == Sin(a + 1)

\* min(d0, d1) of the two projections of the motion direction; the inputs
\* of the model carry no NaN coordinate, so nanmin is min.
calculate_forward_motion(x0, y0, a0, x1, y1, a1, norm) ==
    LET dx == x1.num * x0.den - x0.num * x1.den
        dy == y1.num * y0.den - y0.num * y1.den
        d0 == Sin(a0) * dx * (y0.den * y1.den) + Cos(a0) * dy * (x0.den * x1.den)
        d1 == Sin(a1) * dx * (y0.den * y1.den) + Cos(a1) * dy * (x0.den * x1.den)
        den == x0.den * x1.den * y0.den * y1.den * norm
        lowest == IF den > 0 THEN Min(d0, d1) ELSE Max(d0, d1)
    IN  Rat(lowest, den)

detection_forward_motion(detection0, detection1, norm) ==
    LET n == NormOf(detection0, detection1, norm)
    IN  calculate_forward_motion(
            detection0.x_hive, detection0.y_hive, detection0.orientation_hive,
            detection1.x_hive, detection1.y_hive, detection1.orientation_hive, n)

angular_distance(a0, a1, norm) ==
    LET diff0 == Abs((a0 - a1) % FullTurn)
        diff == IF 2 * diff0 >= FullTurn THEN diff0 - FullTurn ELSE diff0
    IN  Rat(Abs(diff), norm)

detection_angular_distance(detection0, detection1, norm) ==
    LET n == NormOf(detection0, detection1, norm)
    IN  angular_distance(detection0.orientation_hive, detection1.orientation_hive, n)

AbsDiffs(bits0, bits1) == [i \in 1..Len(bits0) |-> Abs(bits0[i] - bits1[i])]

\* fun is "mean" (np.mean) or "max" (np.max); the result is in hundredths.
bitwise_distance(bits0, bits1, fun) ==
    IF bits0 = NoBits /\ bits1 = NoBits THEN NaN
    ELSE IF bits0 = NoBits \/ bits1 = NoBits THEN NaN
    ELSE IF fun = "mean"
         THEN Rat(SumSeq(AbsDiffs(bits0, bits1)), One * Len(bits0))
         ELSE Rat(MaxSeq(AbsDiffs(bits0, bits1)), One)

bitwise_manhattan_distance(bits0, bits1) == bitwise_distance(bits0, bits1, "mean")

detection_id_distance(detection0, detection1) ==
    bitwise_manhattan_distance(detection0.bit_probabilities,
                               detection1.bit_probabilities)

detection_type_to_index(t) ==
    CASE t = "TaggedBee" -> 0
      [] t = "UntaggedBee" -> 1
      [] t = "BeeOnGlass" -> 2
      [] t = "BeeInCell" -> 3

get_detection_confidence(detection) ==
    IF detection.bit_probabilities = NoBits THEN NaN
    ELSE LET b == detection.bit_probabilities
         IN  Rat(2 * SumSeq([i \in 1..Len(b) |-> Abs(b[i] - Half)]), One * Len(b))

detection_confidences(detection0, detection1) ==
    <<get_detection_confidence(detection0), get_detection_confidence(detection1)>>

detection_localizer_saliencies(detection0, detection1) ==
    <<detection0.localizer_saliency, detection1.localizer_saliency>>


(***************************************************************************)
(* The transition policy (detection_data_generation.py).                   *)
(***************************************************************************)
\* The policy without its first rule (tag <-> no tag).
is_valid_without_tag_rule(det, next_det) ==
    IF \/ (det.detection_type = "BeeOnGlass" /\ next_det.detection_type = "BeeInCell")
       \/ (det.detection_type = "BeeInCell" /\ next_det.detection_type = "BeeOnGlass")
    THEN FALSE
    ELSE IF \/ (det.detection_type = "BeeOnGlass" /\ next_det.detection_type = "TaggedBee")
            \/ (det.detection_type = "TaggedBee" /\ next_det.detection_type = "BeeOnGlass")
    THEN FALSE
    ELSE TRUE

is_valid_detection_pair_combination(det, next_det) ==
    IF \/ (det.detection_type = "TaggedBee" /\ next_det.detection_type = "UntaggedBee")
       \/ (det.detection_type = "UntaggedBee" /\ next_det.detection_type = "TaggedBee")
    THEN FALSE
    ELSE IF \/ (det.detection_type = "BeeOnGlass" /\ next_det.detection_type = "BeeInCell")
            \/ (det.detection_type = "BeeInCell" /\ next_det.detection_type = "BeeOnGlass")
    THEN FALSE
    ELSE IF \/ (det.detection_type = "BeeOnGlass" /\ next_det.detection_type = "TaggedBee")
            \/ (det.detection_type = "TaggedBee" /\ next_det.detection_type = "BeeOnGlass")
    THEN FALSE
    ELSE TRUE

\* The comparison without the detection index.
are_same_detections_no_index(d0, d1) ==
    /\ d0.frame_id = d1.frame_id
    /\ d0.detection_type = d1.detection_type

are_same_detections(d0, d1) ==
    /\ d0.frame_id = d1.frame_id
    /\ d0.detection_type = d1.detection_type
    /\ d0.detection_index = d1.detection_index

\* Python's float(bool).
FloatOfBool(b) == IF b THEN Rat(1, 1) ELSE Rat(0, 1)

(***************************************************************************)
(* Feature assemblers and identity estimators (features.py).               *)
(***************************************************************************)
\* A histogram of the first side only.
TypeHistogramOneSide(side0, side1) ==
    [slot \in 1..4 |->
        Rat(Cardinality({k \in 1..Len(side0) :
                detection_type_to_index(side0[k].detection_type) = slot - 1}),
            Len(side0))]

\* The 8 slots of a type histogram: slot 4 * track_idx + type index counts
\* the detections of side track_idx with that type, divided by the side's
\* length.
TypeHistogram(side0, side1) ==
    LET sides == <<side0, side1>>
        count(track_idx, i) ==
            Cardinality({k \in 1..Len(sides[track_idx + 1]) :
                detection_type_to_index(sides[track_idx + 1][k].detection_type) = i})
    IN  [slot \in 1..8 |->
            LET track_idx == (slot - 1) \div 4
                i == (slot - 1) % 4
            IN  Rat(count(track_idx, i), Len(sides[track_idx + 1]))]

detection_track_type_changes_mask(tracklet0, detection1) ==
    TypeHistogram(LastN(tracklet0.detections, 5), <<detection1>>)

track_type_changes_mask(tracklet0, tracklet1) ==
    TypeHistogram(LastN(tracklet0.detections, 5), FirstN(tracklet1.detections, 5))

\* The number of positions whose hard decisions (bit > 0.5) differ.
HardDisagreements(bits0, bits1) ==
    Cardinality({i \in 1..Len(bits0) : (bits0[i] > Half) # (bits1[i] > Half)})

\* The max-bit-distance rule written after the return of detection_id_match.
detection_id_match_max_rule(detection0, detection1) ==
    LET bits0 == detection0.bit_probabilities
        bits1 == detection1.bit_probabilities
    IN  IF bits0 = NoBits /\ bits1 = NoBits THEN Rat(1, 1)
        ELSE IF bits0 = NoBits \/ bits1 = NoBits THEN Rat(0, 1)
        ELSE IF 2 * bitwise_distance(bits0, bits1, "max").num < One
             THEN Rat(1, 1) ELSE Rat(0, 1)

detection_id_match(detection0, detection1) ==
    LET bits0 == detection0.bit_probabilities
        bits1 == detection1.bit_probabilities
    IN  IF bits0 = NoBits /\ bits1 = NoBits THEN Rat(1, 1)
        ELSE IF bits0 = NoBits \/ bits1 = NoBits THEN Rat(0, 1)
        ELSE IF HardDisagreements(bits0, bits1) > 0 THEN Rat(0, 1)
        ELSE Rat(1, 1)

detection_id_match_cost(detection0, detection1) ==
    LET m == detection_id_match(detection0, detection1)
    IN  Rat(m.den - m.num, m.den)

\* The bit vectors of the TaggedBee detections, in track order.
TaggedBits(detections) ==
    LET idx == {i \in 1..Len(detections) : detections[i].detection_type = "TaggedBee"}
        RECURSIVE Pick(_)
        Pick(i) == IF i > Len(detections) THEN <<>>
                   ELSE IF i \in idx
                        THEN <<detections[i].bit_probabilities>> \o Pick(i + 1)
                        ELSE Pick(i + 1)
    IN  Pick(1)

\* The k-th smallest value of a non-empty sequence of integers.
KthSmallest(vals, k) ==
    CHOOSE v \in {vals[i] : i \in 1..Len(vals)} :
        /\ Cardinality({i \in 1..Len(vals) : vals[i] < v}) < k
        /\ Cardinality({i \in 1..Len(vals) : vals[i] <= v}) >= k

\* np.median of a non-empty sequence: the middle value, or the mean of the
\* two middle values (exact: the model's bit levels are even).
Median(vals) ==
    LET n == Len(vals)
    IN  IF n % 2 = 1 THEN KthSmallest(vals, (n + 1) \div 2)
        ELSE (KthSmallest(vals, n \div 2) + KthSmallest(vals, n \div 2 + 1)) \div 2

\* np.median(rows, axis=0) of a non-empty sequence of equally long rows.
MedianRows(rows) ==
    [b \in 1..Len(rows[1]) |-> Median([r \in 1..Len(rows) |-> rows[r][b]])]

ComputeMedianId(detections) ==
    LET tracklet_bits == TaggedBits(detections)
    IN  IF Len(tracklet_bits) = 0 THEN NoBits ELSE MedianRows(tracklet_bits)

\* mean(log1p(2 * |bit - 0.5|)) orders the rows as the product of the
\* factors 1 + 2 * |bit - 0.5| does; the product is what is compared.
RECURSIVE ProdSeq(_)
ProdSeq(s) == IF s = <<>> THEN 1 ELSE Head(s) * ProdSeq(Tail(s))

RowConfidence(bits) == ProdSeq([i \in 1..Len(bits) |-> One + 2 * Abs(bits[i] - Half)])

ComputeStableId(detections) ==
    LET tracklet_bits == TaggedBits(detections)
        n == Len(tracklet_bits)
        N == Max(5, n \div 10)
        conf(i) == RowConfidence(tracklet_bits[i])
        \* argsort(confidences)[::-1][:N]: the N most confident rows; of
        \* equally confident rows a stable sort, reversed, puts the later first.
        before(j, i) == conf(j) > conf(i) \/ (conf(j) = conf(i) /\ j > i)
        kept == {i \in 1..n : Cardinality({j \in 1..n : before(j, i)}) < N}
        RECURSIVE Pick(_)
        Pick(i) == IF i > n THEN <<>>
                   ELSE IF i \in kept THEN <<tracklet_bits[i]>> \o Pick(i + 1)
                        ELSE Pick(i + 1)
    IN  IF n = 0 THEN NoBits ELSE MedianRows(Pick(1))

ComputeDecoderConfidence(detections) ==
    LET bits == TaggedBits(detections)
    IN  IF Len(bits) # 0
        THEN LET m == MedianRows(bits)
             IN  Rat(MinSeq([i \in 1..Len(m) |-> Abs(m[i] - Half)]), One)
        ELSE Rat(0, One)


(***************************************************************************)
(* The memoization cache.  A tracklet's cache_ field is a reference: the   *)
(* index of a dictionary in the heap h.  A dictionary is a function from   *)
(* the keys it holds to their values.                                      *)
(***************************************************************************)
CacheKeys == {"track_median_id", "track_stable_id", "track_decoder_confidence"}

EmptyDict == [k \in {} |-> None]

\* The test `tracklet.cache_.get(key) is not None` in place of `in`.
CacheHitNotNone(cache, key) ==
    /\ key \in DOMAIN cache
    /\ ~(key # "track_decoder_confidence" /\ cache[key] = NoBits)

\* `key in tracklet.cache_`
CacheHit(cache, key) == key \in DOMAIN cache

\* What an estimator computes when the cache does not answer.
ComputeAggregate(key, detections) ==
    CASE key = "track_median_id" -> ComputeMedianId(detections)
      [] key = "track_stable_id" -> ComputeStableId(detections)
      [] key = "track_decoder_confidence" -> ComputeDecoderConfidence(detections)

\* The value an estimator returns for tracklet under heap h.
EstimatorValue(h, tracklet, key) ==
    IF CacheHit(h[tracklet.cache_], key)
    THEN h[tracklet.cache_][key]
    ELSE ComputeAggregate(key, tracklet.detections)

\* The heap an estimator leaves: the computed value stored under its key.
EstimatorHeap(h, tracklet, key) ==
    IF CacheHit(h[tracklet.cache_], key)
    THEN h
    ELSE [h EXCEPT ![tracklet.cache_] =
             [k \in DOMAIN @ \cup {key} |->
                 IF k = key THEN ComputeAggregate(key, tracklet.detections) ELSE @[k]]]

track_median_id(h, tracklet) == EstimatorValue(h, tracklet, "track_median_id")
track_stable_id(h, tracklet) == EstimatorValue(h, tracklet, "track_stable_id")
track_decoder_confidence(h, tracklet) ==
    EstimatorValue(h, tracklet, "track_decoder_confidence")

\* The heap after the estimator of key ran on tracklet0, then on tracklet1.
HeapAfterBoth(h, tracklet0, tracklet1, key) ==
    EstimatorHeap(EstimatorHeap(h, tracklet0, key), tracklet1, key)

track_median_id_distance(h, tracklet0, tracklet1) ==
    bitwise_manhattan_distance(
        track_median_id(h, tracklet0),
        track_median_id(EstimatorHeap(h, tracklet0, "track_median_id"), tracklet1))

track_stable_id_distance(h, tracklet0, tracklet1) ==
    bitwise_manhattan_distance(
        track_stable_id(h, tracklet0),
        track_stable_id(EstimatorHeap(h, tracklet0, "track_stable_id"), tracklet1))

track_difference_of_confidence(h, tracklet0, tracklet1) ==
    LET c0 == track_decoder_confidence(h, tracklet0)
        c1 == track_decoder_confidence(
                  EstimatorHeap(h, tracklet0, "track_decoder_confidence"), tracklet1)
    IN  Rat(Abs(c0.num - c1.num), One)

track_distance(tracklet0, tracklet1, norm) ==
    detection_distance(tracklet0.detections[Len(tracklet0.detections)],
                       tracklet1.detections[1], norm)

(***************************************************************************)
(* Motion extrapolation.                                                   *)
(***************************************************************************)
\* The unsigned difference, without the fold to the shorter side.
short_angle_dist_unfolded(a0, a1) == (a1 - a0) % FullTurn

short_angle_dist(a0, a1) ==
    LET max == FullTurn
        da == (a1 - a0) % max
    IN  ((2 * da) % max) - da

\* x1 + (x1 - x0) * factor for Rat coordinates and a Rat factor.
Extrapolate1(x0, x1, factor) ==
    LET dn == x1.num * x0.den - x0.num * x1.den
        dd == x0.den * x1.den
    IN  Rat(x1.num * dd * factor.den + dn * factor.num * x1.den,
            x1.den * dd * factor.den)

extrapolate_position_and_angles(x0, y0, a0, x1, y1, a1, factor) ==
    <<Extrapolate1(x0, x1, factor),
      Extrapolate1(y0, y1, factor),
      Rat(a1 * factor.den + short_angle_dist(a0, a1) * factor.num, factor.den)>>

\* detections holds one or two detections (tracklet0.detections[-2:]).
extrapolate_detections(seconds, detections) ==
    IF Len(detections) = 1 THEN detections[1]
    ELSE LET seconds_distance ==
                 detection_temporal_distance(detections[1], detections[2])
             extrapolation_factor == Rat(seconds, seconds_distance)
             xya == extrapolate_position_and_angles(
                        detections[1].x_hive, detections[1].y_hive,
                        detections[1].orientation_hive,
                        detections[2].x_hive, detections[2].y_hive,
                        detections[2].orientation_hive,
                        extrapolation_factor)
         IN  [x_hive |-> xya[1], y_hive |-> xya[2], orientation_hive |-> xya[3],
              timestamp_posix |-> detections[2].timestamp_posix + seconds,
              detection_type |-> detections[2].detection_type]

track_forward_distance(tracklet0, detection1, seconds_distance) ==
    LET last == tracklet0.detections[Len(tracklet0.detections)]
        seconds == IF seconds_distance = NaN
                   THEN detection_temporal_distance(last, detection1)
                   ELSE seconds_distance.num
    IN  detection_distance(
            extrapolate_detections(seconds, LastN(tracklet0.detections, 2)),
            detection1, Rat(1, 1))

(***************************************************************************)
(* The two assemblers.                                                     *)
(***************************************************************************)
get_detection_features(tracklet0, detection1) ==
    LET detection0 == tracklet0.detections[Len(tracklet0.detections)]
    IN  <<detection_distance(detection0, detection1, NaN),
          detection_angular_distance(detection0, detection1, NaN),
          detection_id_distance(detection0, detection1),
          detection_forward_motion(detection0, detection1, NaN),
          track_forward_distance(tracklet0, detection1, NaN),
          FloatOfBool(is_valid_detection_pair_combination(detection0, detection1))>>
        \o detection_confidences(detection0, detection1)
        \o detection_localizer_saliencies(detection0, detection1)
        \o detection_track_type_changes_mask(tracklet0, detection1)

get_track_features(h, tracklet0, tracklet1) ==
    LET last0 == tracklet0.detections[Len(tracklet0.detections)]
        first1 == tracklet1.detections[1]
        raw_track_distance == track_distance(tracklet0, tracklet1, Rat(1, 1))
        h1 == HeapAfterBoth(h, tracklet0, tracklet1, "track_median_id")
        h2 == HeapAfterBoth(h1, tracklet0, tracklet1, "track_stable_id")
    IN  <<FloatOfBool(is_valid_detection_pair_combination(last0, first1)),
          raw_track_distance,
          track_median_id_distance(h, tracklet0, tracklet1),
          track_stable_id_distance(h1, tracklet0, tracklet1),
          detection_id_distance(last0, first1),
          track_difference_of_confidence(h2, tracklet0, tracklet1)>>
        \o track_type_changes_mask(tracklet0, tracklet1)

\* The heap get_track_features leaves behind.
GetTrackFeaturesHeap(h, tracklet0, tracklet1) ==
    HeapAfterBoth(
        HeapAfterBoth(
            HeapAfterBoth(h, tracklet0, tracklet1, "track_median_id"),
            tracklet0, tracklet1, "track_stable_id"),
        tracklet0, tracklet1, "track_decoder_confidence")


(***************************************************************************)
(* One work unit (detection_data_generation.py).                           *)
(***************************************************************************)
\* Track._replace(detections=..., timestamps=..., frame_ids=...): a new
\* tuple with these three fields replaced and every other field, the
\* cache_ reference included, as it was.
Replace(track, detections, timestamps, frame_ids) ==
    [track EXCEPT !.detections = detections,
                  !.timestamps = timestamps,
                  !.frame_ids = frame_ids]

\* The tracklet of the second decay depth: tracklet._replace(...[-1:]).
TruncateToLast(tracklet) ==
    Replace(tracklet, LastN(tracklet.detections, 1),
            LastN(tracklet.timestamps, 1), LastN(tracklet.frame_ids, 1))

\* The comparison the wrong way round.
ExceedsHardLimitInverted(detection_features, distance_per_second_hard_limit) ==
    ~RootExceeds(detection_features[1], distance_per_second_hard_limit)

\* `detection_features[0] > distance_per_second_hard_limit`
ExceedsHardLimit(detection_features, distance_per_second_hard_limit) ==
    RootExceeds(detection_features[1], distance_per_second_hard_limit)

DebugTuple(detection, other) ==
    <<detection.frame_id, detection.detection_index,
      detection.x_pixels, detection.y_pixels,
      other.detection_index, other.x_pixels, other.y_pixels>>

\* The loop over the candidates without its skip of the true follow-up.
IsFollowUpNever(candidate_detection, follow_up_detection) == FALSE

\* `follow_up_detection is not None and are_same_detections(...)`
IsFollowUp(candidate_detection, follow_up_detection) ==
    /\ follow_up_detection # None
    /\ are_same_detections(candidate_detection, follow_up_detection)

\* The samples one pass of `for i in range(2)` appends: detection is the
\* last detection of the tracklet the unit was given.
DepthSamples(tracklet, detection, follow_up_detection, candidate_detections, distance_per_second_hard_limit) ==
    LET positive ==
            IF follow_up_detection # None
            THEN << <<get_detection_features(tracklet, follow_up_detection), 1,
                      DebugTuple(detection, follow_up_detection)>> >>
            ELSE <<>>
        RECURSIVE Negatives(_)
        Negatives(k) ==
            IF k > Len(candidate_detections) THEN <<>>
            ELSE LET candidate_detection == candidate_detections[k]
                     detection_features ==
                         get_detection_features(tracklet, candidate_detection)
                 IN  IF IsFollowUp(candidate_detection, follow_up_detection)
                     THEN Negatives(k + 1)
                     ELSE IF ExceedsHardLimit(detection_features,
                                              distance_per_second_hard_limit)
                     THEN Negatives(k + 1)
                     ELSE << <<detection_features, 0,
                               DebugTuple(detection, candidate_detection)>> >>
                          \o Negatives(k + 1)
    IN  positive \o Negatives(1)

generate_detection_features_for_frame(tracklet, follow_up_detection, candidate_detections, distance_per_second_hard_limit) ==
    LET detection == tracklet.detections[Len(tracklet.detections)]
    IN  DepthSamples(tracklet, detection, follow_up_detection,
                     candidate_detections, distance_per_second_hard_limit)
        \o DepthSamples(TruncateToLast(tracklet), detection, follow_up_detection,
                        candidate_detections, distance_per_second_hard_limit)


(***************************************************************************)
(* Inputs of a run of generate_detection_features: a frame stream and the  *)
(* ground-truth tracks.                                                    *)
(***************************************************************************)
\* Largest number of frames of the stream.
NFrames == 3
\* The seconds between two consecutive frames of a stream.
Gaps == {1, 2}
\* Identity bits per tagged detection.
NBits == 2
\* distance_per_second_hard_limit=30.0
DefaultHardLimit == 30
\* ProcessPoolExecutor(max_workers=8)
max_workers == 8

\* The bit vector a tagged detection of frame f carries (none otherwise).
BitsOf(type, f) ==
    IF type # "TaggedBee" THEN NoBits
    ELSE [i \in 1..NBits |-> IF (f + i) % 2 = 0 THEN 100 ELSE IF f % 2 = 0 THEN 40 ELSE 0]

Detection(f, ts, index, type, x, y, ori) ==
    [frame_id |-> f, detection_index |-> index, detection_type |-> type,
     x_pixels |-> x, y_pixels |-> y,
     x_hive |-> Rat(x, 1), y_hive |-> Rat(y, 1), orientation_hive |-> ori,
     timestamp |-> ts, timestamp_posix |-> ts,
     bit_probabilities |-> BitsOf(type, f),
     localizer_saliency |-> Rat(80, One)]

\* The tracked bee's detection in frame f: type t1 in frame 1, t2 later.
BeeDetection(f, gap, t1, t2) ==
    Detection(f, f * gap, 0, IF f = 1 THEN t1 ELSE t2, 0, 0, f)

\* An untracked detection, x units away from the tracked bee.
OtherDetection(f, gap, x) ==
    Detection(f, f * gap, 1, "UntaggedBee", x, 0, 0)

\* Where the untracked detection of a frame lies: nowhere, on the hard
\* limit at one second, beyond it at one second.
OtherPlaces == {0, DefaultHardLimit, DefaultHardLimit + 10}

\* The detections of frame f: the tracked bee when the track has a
\* detection there, the untracked one when there is one (place # 0).
FrameDetections(f, gap, t1, t2, gtFrames, place) ==
    (IF f \in gtFrames THEN <<BeeDetection(f, gap, t1, t2)>> ELSE <<>>)
    \o (IF place # 0 THEN <<OtherDetection(f, gap, place)>> ELSE <<>>)

RECURSIVE SetToSeq(_)
\* The elements of a set of integers, ascending.
SetToSeq(S) ==
    IF S = {} THEN <<>>
    ELSE LET m == CHOOSE x \in S : \A y \in S : x <= y
         IN  <<m>> \o SetToSeq(S \ {m})

\* types.Track(id, cam_id, detections, timestamps, frame_ids, bee_id,
\* bee_id_confidence, cache_)
Track(id, cam_id, detections, timestamps, frame_ids, cache_) ==
    [id |-> id, cam_id |-> cam_id, detections |-> detections,
     timestamps |-> timestamps, frame_ids |-> frame_ids,
     bee_id |-> None, bee_id_confidence |-> None, cache_ |-> cache_]

\* The ground-truth track of the bee over the frames gtFrames.
GtTrack(gap, t1, t2, gtFrames) ==
    LET fs == SetToSeq(gtFrames)
    IN  Track(1, 0,
              [k \in 1..Len(fs) |-> BeeDetection(fs[k], gap, t1, t2)],
              [k \in 1..Len(fs) |-> fs[k] * gap],
              fs, 1)

\* What data_walker.iterate_bb_binary_repository yields over the window:
\* (cam_id, frame_id, frame_datetime, frame_detections, _) in time order.
World(nf, gap, t1, t2, gtFrames, place) ==
    [frames |-> [f \in 1..nf |->
                    [cam_id |-> 0, frame_id |-> f, frame_datetime |-> f * gap,
                     frame_detections |->
                         FrameDetections(f, gap, t1, t2, gtFrames, place)]],
     gt_tracks |-> <<GtTrack(gap, t1, t2, gtFrames)>>,
     distance_per_second_hard_limit |-> DefaultHardLimit]

\* The window spans the track: its first and last frames hold a detection.
Worlds ==
    UNION {
        {World(nf, gap, t1, t2, gtFrames, place) :
            gap \in Gaps, t1 \in DetectionTypes, t2 \in DetectionTypes,
            gtFrames \in {S \in SUBSET (1..nf) : 1 \in S /\ nf \in S},
            place \in OtherPlaces} : nf \in 1..NFrames}


(***************************************************************************)
(* State.                                                                  *)
(***************************************************************************)
VARIABLES
    world,                    \* the inputs of the run
    pc,                       \* where generate_detection_features stands
    next_frame_dict,          \* frame_id -> the id of the frame after it
    follow_up_detection_map,  \* detection key -> true follow-up detection
    det_to_tracklet,          \* detection key -> tracklet prefix
    frame_index,              \* frames the submitting pass has consumed
    last_frame_detections,    \* None, or Some(detections of the frame before)
    future_results,           \* the submitted units, in submission order
    results,                  \* the samples retrieved so far
    n_retrieved,              \* futures whose result() has returned
    n_positives,              \* the positive count the run reports
    kin,                      \* the arguments of a kernel call
    kout,                     \* what the kernel call returned
    tracklets,                \* the tracklet instances alive
    heap,                     \* the cache dictionaries, by reference
    computed,                 \* instance -> key -> times it was computed
    ret                       \* the last estimator call: instance, key,
                              \* whether the cache answered, and the value

pipeVars == <<world, pc, next_frame_dict, follow_up_detection_map,
              det_to_tracklet, frame_index, last_frame_detections,
              future_results, results, n_retrieved, n_positives>>
kernelVars == <<kin, kout>>
cacheVars == <<tracklets, heap, computed, ret>>
vars == <<pipeVars, kernelVars, cacheVars>>

EmptyMap == [k \in {} |-> None]

DetectionKey(det) == <<det.frame_id, det.detection_type, det.detection_index>>

PipeIdle ==
    /\ world = None
    /\ pc = "idle"
    /\ next_frame_dict = EmptyMap
    /\ follow_up_detection_map = EmptyMap
    /\ det_to_tracklet = EmptyMap
    /\ frame_index = 0
    /\ last_frame_detections = None
    /\ future_results = <<>>
    /\ results = <<>>
    /\ n_retrieved = 0
    /\ n_positives = 0

KernelIdle == kin = None /\ kout = None

CacheIdle ==
    /\ tracklets = <<>>
    /\ heap = <<>>
    /\ computed = <<>>
    /\ ret = None

(***************************************************************************)
(* generate_detection_features.                                            *)
(***************************************************************************)
Init ==
    /\ world \in Worlds
    /\ pc = "walk"
    /\ next_frame_dict = EmptyMap
    /\ follow_up_detection_map = EmptyMap
    /\ det_to_tracklet = EmptyMap
    /\ frame_index = 0
    /\ last_frame_detections = None
    /\ future_results = <<>>
    /\ results = <<>>
    /\ n_retrieved = 0
    /\ n_positives = 0
    /\ KernelIdle
    /\ CacheIdle

\* The first pass over the stream: next_frame_dict[last_frame_id] = frame_id.
NextFrameDict(frames) ==
    [fid \in {frames[k].frame_id : k \in 1..(Len(frames) - 1)} |->
        LET k == CHOOSE j \in 1..(Len(frames) - 1) :
                    /\ frames[j].frame_id = fid
                    /\ \A i \in (j + 1)..(Len(frames) - 1) : frames[i].frame_id # fid
        IN  frames[k + 1].frame_id]

WalkFrames ==
    /\ pc = "walk"
    /\ next_frame_dict' = NextFrameDict(world.frames)
    /\ pc' = "map"
    /\ UNCHANGED <<world, follow_up_detection_map, det_to_tracklet, frame_index,
                   last_frame_detections, future_results, results, n_retrieved,
                   n_positives, kernelVars, cacheVars>>

\* The prefix of track that ends at position det_idx (1-based here).
PrefixTracklet(track, det_idx) ==
    Replace(track, SubSeq(track.detections, 1, det_idx),
            SubSeq(track.timestamps, 1, det_idx),
            SubSeq(track.frame_ids, 1, det_idx))

\* Whether position det_idx of track gets a follow-up entry.
HasFollowUp(nfd, track, det_idx) ==
    LET det == track.detections[det_idx]
    IN  IF det_idx = Len(track.detections) THEN FALSE
        ELSE LET next_det == track.detections[det_idx + 1]
             IN  IF nfd[det.frame_id] # next_det.frame_id THEN FALSE
                 ELSE IF ~is_valid_detection_pair_combination(det, next_det)
                      THEN FALSE
                      ELSE TRUE

\* All (track, position) pairs in the order of the two nested loops.
RECURSIVE TrackPositions(_, _, _)
TrackPositions(tracks, t, i) ==
    IF t > Len(tracks) THEN <<>>
    ELSE IF i > Len(tracks[t].detections) THEN TrackPositions(tracks, t + 1, 1)
    ELSE << <<t, i>> >> \o TrackPositions(tracks, t, i + 1)

\* A dict after the assignments  d[keys[n]] = values[n]  for n in order:
\* a later assignment to a key overwrites an earlier one.
DictOf(keys, values) ==
    [k \in {keys[n] : n \in 1..Len(keys)} |->
        LET n == CHOOSE m \in 1..Len(keys) :
                    /\ keys[m] = k
                    /\ \A j \in (m + 1)..Len(keys) : keys[j] # k
        IN  values[n]]

\* The elements of s a loop reaches without `continue`: keep[k] tells
\* whether the k-th passes.
SelectSeqBy(s, keep) ==
    LET RECURSIVE Go(_)
        Go(k) == IF k > Len(s) THEN <<>>
                 ELSE (IF keep[k] THEN <<s[k]>> ELSE <<>>) \o Go(k + 1)
    IN  Go(1)

BuildMaps ==
    /\ pc = "map"
    /\ LET tracks == world.gt_tracks
           positions == TrackPositions(tracks, 1, 1)
           keyOf(p) == DetectionKey(tracks[p[1]].detections[p[2]])
           prefixOf(p) == PrefixTracklet(tracks[p[1]], p[2])
           followed(p) == HasFollowUp(next_frame_dict, tracks[p[1]], p[2])
           nextOf(p) == tracks[p[1]].detections[p[2] + 1]
           with_next == SelectSeqBy(positions,
                            [n \in 1..Len(positions) |-> followed(positions[n])])
       IN  /\ det_to_tracklet' =
                  DictOf([n \in 1..Len(positions) |-> keyOf(positions[n])],
                         [n \in 1..Len(positions) |-> prefixOf(positions[n])])
           /\ follow_up_detection_map' =
                  DictOf([n \in 1..Len(with_next) |-> keyOf(with_next[n])],
                         [n \in 1..Len(with_next) |-> nextOf(with_next[n])])
    /\ pc' = "submit"
    /\ UNCHANGED <<world, next_frame_dict, frame_index, last_frame_detections,
                   future_results, results, n_retrieved, n_positives,
                   kernelVars, cacheVars>>


\* The unit submitted for one detection of the frame before: the k-th of
\* last_frame_detections, while the loop stands at the frame frame_id.
WorkUnit(detection, k, frame_id, frame_detections) ==
    LET det_key == DetectionKey(detection)
        follow_up == IF det_key \in DOMAIN follow_up_detection_map
                     THEN follow_up_detection_map[det_key]
                     ELSE None
        det_tracklet ==
            IF det_key \in DOMAIN det_to_tracklet
            THEN det_to_tracklet[det_key]
            ELSE \* cache_=dict(): a dictionary no other track refers to
                 Track(0, 0, <<detection>>, <<detection.timestamp>>, <<frame_id>>,
                       Len(world.gt_tracks) + Len(future_results) + k)
    IN  [tracklet |-> det_tracklet,
         follow_up_detection |-> follow_up,
         candidate_detections |-> frame_detections,
         distance_per_second_hard_limit |-> world.distance_per_second_hard_limit,
         state |-> "pending",
         result |-> <<>>]

\* One iteration of the submitting loop over the stream.
SubmitFrame ==
    /\ pc = "submit"
    /\ frame_index < Len(world.frames)
    /\ LET frame == world.frames[frame_index + 1]
       IN  /\ future_results' =
                  IF last_frame_detections # None
                  THEN future_results \o
                       [k \in 1..Len(last_frame_detections.value) |->
                           WorkUnit(last_frame_detections.value[k], k,
                                    frame.frame_id, frame.frame_detections)]
                  ELSE future_results
           /\ last_frame_detections' = Some(frame.frame_detections)
    /\ frame_index' = frame_index + 1
    /\ pc' = IF frame_index' = Len(world.frames) THEN "retrieve" ELSE "submit"
    /\ UNCHANGED <<world, next_frame_dict, follow_up_detection_map,
                   det_to_tracklet, results, n_retrieved, n_positives,
                   kernelVars, cacheVars>>

Running == {i \in 1..Len(future_results) : future_results[i].state = "running"}

\* A pool process takes a submitted unit.
WorkerStart(i) ==
    /\ pc \in {"submit", "retrieve"}
    /\ future_results[i].state = "pending"
    /\ Cardinality(Running) < max_workers
    /\ future_results' = [future_results EXCEPT ![i].state = "running"]
    /\ UNCHANGED <<world, pc, next_frame_dict, follow_up_detection_map,
                   det_to_tracklet, frame_index, last_frame_detections,
                   results, n_retrieved, n_positives, kernelVars, cacheVars>>

\* The process returns the unit's samples.
WorkerFinish(i) ==
    /\ pc \in {"submit", "retrieve"}
    /\ future_results[i].state = "running"
    /\ future_results' =
           [future_results EXCEPT
               ![i].state = "done",
               ![i].result = generate_detection_features_for_frame(
                                 future_results[i].tracklet,
                                 future_results[i].follow_up_detection,
                                 future_results[i].candidate_detections,
                                 future_results[i].distance_per_second_hard_limit)]
    /\ UNCHANGED <<world, pc, next_frame_dict, follow_up_detection_map,
                   det_to_tracklet, frame_index, last_frame_detections,
                   results, n_retrieved, n_positives, kernelVars, cacheVars>>

\* r.result() does not wait for the process to finish.
FutureReadyAtOnce(future) == TRUE

\* r.result() returns once the unit's process has finished.
FutureReady(future) == future.state = "done"

\* `results += r.result()` for the next future, in submission order; the
\* call blocks until that future is done.
RetrieveResult ==
    /\ pc = "retrieve"
    /\ n_retrieved < Len(future_results)
    /\ FutureReady(future_results[n_retrieved + 1])
    /\ results' = results \o future_results[n_retrieved + 1].result
    /\ n_retrieved' = n_retrieved + 1
    /\ UNCHANGED <<world, pc, next_frame_dict, follow_up_detection_map,
                   det_to_tracklet, frame_index, last_frame_detections,
                   future_results, n_positives, kernelVars, cacheVars>>

\* n_positives = sum(f[1] for f in results), then the return.
Report ==
    /\ pc = "retrieve"
    /\ n_retrieved = Len(future_results)
    /\ n_positives' = SumSeq([k \in 1..Len(results) |-> results[k][2]])
    /\ pc' = "done"
    /\ UNCHANGED <<world, next_frame_dict, follow_up_detection_map,
                   det_to_tracklet, frame_index, last_frame_detections,
                   future_results, results, n_retrieved, kernelVars, cacheVars>>

Next ==
    \/ WalkFrames
    \/ BuildMaps
    \/ SubmitFrame
    \/ \E i \in 1..Len(future_results) : WorkerStart(i)
    \/ \E i \in 1..Len(future_results) : WorkerFinish(i)
    \/ RetrieveResult
    \/ Report

Spec == Init /\ [][Next]_vars

(***************************************************************************)
(* Calls of the kernels and assemblers on their own.                       *)
(***************************************************************************)
\* Longest history of a tracklet handed to an assembler or an estimator.
MaxHistory == 2
\* Angles range over -MaxAngle..MaxAngle quarter turns.
MaxAngle == 6
\* The bit probabilities drawn, in hundredths: both sides of the threshold
\* 0.5 and the threshold itself.
BitLevels == {0, 40, 50, 60, 100}

BitVectors == [1..NBits -> BitLevels]

\* A detection that carries the bit vector bits (NoBits: an untagged one).
BitsDetection(bits) ==
    [Detection(1, 1, 0, IF bits = NoBits THEN "UntaggedBee" ELSE "TaggedBee",
               0, 0, 0)
        EXCEPT !.bit_probabilities = bits]

\* The detection at position k of a history: it moves and turns with k.
HistoryDetection(k, type) == Detection(k, k, 0, type, 3 * k, 4 * (k % 2), k)

\* The tracklets whose detections sit at the positions first..last, with
\* every choice of types from the set types.
Histories(first, last, types, cache_) ==
    {Track(1, 0, [k \in 1..(last - first + 1) |-> HistoryDetection(first + k - 1, ty[k])],
           [k \in 1..(last - first + 1) |-> first + k - 1],
           [k \in 1..(last - first + 1) |-> first + k - 1],
           cache_) : ty \in [1..(last - first + 1) -> types]}

\* A tracklet of six detections, longer than the five a histogram reads.
LongTypes == <<"UntaggedBee", "TaggedBee", "TaggedBee", "BeeInCell",
               "TaggedBee", "BeeOnGlass">>
LongHistory(first, cache_) ==
    Track(1, 0, [k \in 1..6 |-> HistoryDetection(first + k - 1, LongTypes[k])],
          [k \in 1..6 |-> first + k - 1], [k \in 1..6 |-> first + k - 1], cache_)

\* The left argument of an assembler: a history ending at position 6.
LeftTracklets ==
    UNION {Histories(7 - n, 6, DetectionTypes, 1) : n \in 1..MaxHistory}
    \cup {LongHistory(1, 1)}

\* The right argument of get_track_features: a history starting at 7 or 8.
RightTracklets ==
    UNION {Histories(7, 6 + n, DetectionTypes, 2) : n \in 1..MaxHistory}
    \cup {LongHistory(8, 2)}

\* The candidate detection: one or two frames after position 6.
CandidateDetections ==
    {HistoryDetection(k, type) : k \in {7, 8}, type \in DetectionTypes}

KernelInputs ==
    [fn : {"short_angle_dist"}, a0 : (-MaxAngle)..MaxAngle, a1 : (-MaxAngle)..MaxAngle]
    \cup [fn : {"detection_id_match", "detection_id_match_cost"},
          detection0 : {BitsDetection(b) : b \in BitVectors \cup {NoBits}},
          detection1 : {BitsDetection(b) : b \in BitVectors \cup {NoBits}}]
    \cup [fn : {"get_detection_features"},
          tracklet0 : LeftTracklets, detection1 : CandidateDetections]
    \cup [fn : {"get_track_features"},
          tracklet0 : LeftTracklets, tracklet1 : RightTracklets]

InitKernels ==
    /\ PipeIdle
    /\ kin \in KernelInputs
    /\ kout = None
    /\ tracklets = <<>>
    /\ heap = <<EmptyDict, EmptyDict>>
    /\ computed = <<>>
    /\ ret = None

CallShortAngleDist ==
    /\ kin.fn = "short_angle_dist"
    /\ kout = None
    /\ kout' = [value |-> short_angle_dist(kin.a0, kin.a1)]
    /\ UNCHANGED <<pipeVars, kin, cacheVars>>

CallDetectionIdMatch ==
    /\ kin.fn = "detection_id_match"
    /\ kout = None
    /\ kout' = [value |-> detection_id_match(kin.detection0, kin.detection1)]
    /\ UNCHANGED <<pipeVars, kin, cacheVars>>

CallDetectionIdMatchCost ==
    /\ kin.fn = "detection_id_match_cost"
    /\ kout = None
    /\ kout' = [value |-> detection_id_match_cost(kin.detection0, kin.detection1)]
    /\ UNCHANGED <<pipeVars, kin, cacheVars>>

CallGetDetectionFeatures ==
    /\ kin.fn = "get_detection_features"
    /\ kout = None
    /\ kout' = [value |-> get_detection_features(kin.tracklet0, kin.detection1)]
    /\ UNCHANGED <<pipeVars, kin, cacheVars>>

CallGetTrackFeatures ==
    /\ kin.fn = "get_track_features"
    /\ kout = None
    /\ kout' = [value |-> get_track_features(heap, kin.tracklet0, kin.tracklet1)]
    /\ heap' = GetTrackFeaturesHeap(heap, kin.tracklet0, kin.tracklet1)
    /\ UNCHANGED <<pipeVars, kin, tracklets, computed, ret>>

NextKernels ==
    \/ CallShortAngleDist
    \/ CallDetectionIdMatch
    \/ CallDetectionIdMatchCost
    \/ CallGetDetectionFeatures
    \/ CallGetTrackFeatures

SpecKernels == InitKernels /\ [][NextKernels]_vars

(***************************************************************************)
(* Tracklet instances and the estimators that memoize in their caches.     *)
(***************************************************************************)
\* Most tracklet instances alive at once.
MaxInstances == 2

\* The lengths of the ground-truth tracks the estimators are called on.
CacheHistoryLengths == {1, 2}

NoComputations == [k \in CacheKeys |-> 0]

\* A ground-truth track as constructed: its own, still empty, dictionary.
InitCache ==
    /\ PipeIdle
    /\ KernelIdle
    /\ tracklets \in {<<t>> : t \in
           UNION {Histories(1, n, {"TaggedBee", "UntaggedBee"}, 1) :
                     n \in CacheHistoryLengths}}
    /\ heap = <<EmptyDict>>
    /\ computed = <<NoComputations>>
    /\ ret = None

\* generate_detection_features: det_track = track._replace(...[:det_idx+1])
\* of a ground-truth track (instance 1).
PrefixReplace(det_idx) ==
    /\ Len(tracklets) < MaxInstances
    /\ tracklets' = Append(tracklets, PrefixTracklet(tracklets[1], det_idx))
    /\ computed' = Append(computed, NoComputations)
    /\ UNCHANGED <<pipeVars, kernelVars, heap, ret>>

\* executor.submit(..., det_tracklet, ...): the process receives a copy of
\* the tracklet, with a copy of its dictionary.
SubmitCopy(i) ==
    /\ Len(tracklets) < MaxInstances
    /\ tracklets' = Append(tracklets, [tracklets[i] EXCEPT !.cache_ = Len(heap) + 1])
    /\ heap' = Append(heap, heap[tracklets[i].cache_])
    /\ computed' = Append(computed, NoComputations)
    /\ UNCHANGED <<pipeVars, kernelVars, ret>>

\* generate_detection_features_for_frame: tracklet._replace(...[-1:]).
TruncateReplace(i) ==
    /\ Len(tracklets) < MaxInstances
    /\ tracklets' = Append(tracklets, TruncateToLast(tracklets[i]))
    /\ computed' = Append(computed, NoComputations)
    /\ UNCHANGED <<pipeVars, kernelVars, heap, ret>>

\* A call of the estimator of key on instance i.
CallEstimator(i, key) ==
    /\ ret' = [tracklet |-> i, key |-> key,
               hit |-> CacheHit(heap[tracklets[i].cache_], key),
               value |-> EstimatorValue(heap, tracklets[i], key)]
    /\ heap' = EstimatorHeap(heap, tracklets[i], key)
    /\ computed' = IF CacheHit(heap[tracklets[i].cache_], key)
                   THEN computed
                   ELSE [computed EXCEPT ![i][key] = @ + 1]
    /\ UNCHANGED <<pipeVars, kernelVars, tracklets>>

TrackMedianId(i) == CallEstimator(i, "track_median_id")
TrackStableId(i) == CallEstimator(i, "track_stable_id")
TrackDecoderConfidence(i) == CallEstimator(i, "track_decoder_confidence")

NextCache ==
    \/ \E det_idx \in 1..Len(tracklets[1].detections) : PrefixReplace(det_idx)
    \/ \E i \in 1..Len(tracklets) : SubmitCopy(i)
    \/ \E i \in 1..Len(tracklets) : TruncateReplace(i)
    \/ \E i \in 1..Len(tracklets) : TrackMedianId(i)
    \/ \E i \in 1..Len(tracklets) : TrackStableId(i)
    \/ \E i \in 1..Len(tracklets) : TrackDecoderConfidence(i)

SpecCache == InitCache /\ [][NextCache]_vars

(***************************************************************************)
(* Properties of the kernels and assemblers (SpecKernels).                 *)
(***************************************************************************)
Returned(fn) == kin # None /\ kin.fn = fn /\ kout # None

\* C2, as stated: get_detection_features returns a tuple of exactly 14
\* values and get_track_features a tuple of exactly 12 values, whatever the
\* history length, the detection types and the missing identity bits.
C2_ArityAsStated ==
    /\ Returned("get_detection_features") => Len(kout.value) = 14
    /\ Returned("get_track_features") => Len(kout.value) = 12

\* C2, amended: the arity is fixed, but get_detection_features returns
\* exactly 18 values (6 + 2 confidences + 2 saliencies + 8 histogram slots)
\* and get_track_features exactly 14 values (6 + 8 histogram slots).
C2_ArityFixed ==
    /\ Returned("get_detection_features") => Len(kout.value) = 18
    /\ Returned("get_track_features") => Len(kout.value) = 14

\* C2's case: the detection-pair assembler has run on a history longer than
\* the five detections a histogram reads, against a candidate without bits.
C2_Witness ==
    /\ Returned("get_detection_features")
    /\ Len(kin.tracklet0.detections) > 5
    /\ kin.detection1.bit_probabilities = NoBits
    /\ Len(kout.value) = 18

\* The hard decisions of two present bit vectors agree at every position.
HardDecisionsAgree(bits0, bits1) ==
    \A i \in 1..Len(bits0) : (bits0[i] > Half) <=> (bits1[i] > Half)

\* What C7 says detection_id_match returns, as 0 or 1.
StatedMatch(detection0, detection1) ==
    LET bits0 == detection0.bit_probabilities
        bits1 == detection1.bit_probabilities
    IN  CASE bits0 = NoBits /\ bits1 = NoBits -> 1
          [] (bits0 = NoBits) # (bits1 = NoBits) -> 0
          [] OTHER -> IF HardDecisionsAgree(bits0, bits1) THEN 1 ELSE 0

\* C7: detection_id_match is 1.0 when both detections lack bits, 0.0 when
\* exactly one does, and otherwise 1.0 exactly when every bit has the same
\* hard decision (bit > 0.5) in both vectors; detection_id_match_cost is
\* 1 - detection_id_match; the max-bit-distance rule has no influence.
C7_IdMatch ==
    /\ Returned("detection_id_match") =>
           kout.value = Rat(StatedMatch(kin.detection0, kin.detection1), 1)
    /\ Returned("detection_id_match_cost") =>
           /\ kout.value.den = 1
           /\ kout.value.num = 1 - StatedMatch(kin.detection0, kin.detection1)

\* C7's case: the hard decisions agree although the probabilities differ by
\* 0.5 or more (the max-bit-distance rule would say no match), and the
\* match is 1.0.
C7_Witness ==
    /\ Returned("detection_id_match")
    /\ kin.detection0.bit_probabilities # NoBits
    /\ kin.detection1.bit_probabilities # NoBits
    /\ \E i \in 1..NBits :
           Abs(kin.detection0.bit_probabilities[i]
               - kin.detection1.bit_probabilities[i]) >= Half
    /\ kout.value = Rat(1, 1)

\* a0 + r is congruent to a1 modulo 2*pi.
Rotates(a0, r, a1) == (a0 + r - a1) % FullTurn = 0

\* C8, as stated: short_angle_dist returns the rotation r from a0 to a1
\* with a0 + r congruent to a1 and r in the half-open interval (-pi, pi].
C8_RangeAsStated ==
    Returned("short_angle_dist") =>
        /\ Rotates(kin.a0, kout.value, kin.a1)
        /\ -FullTurn < 2 * kout.value
        /\ 2 * kout.value <= FullTurn

\* C8, amended: r is the signed shortest rotation with a0 + r congruent to
\* a1, and r lies in the half-open interval [-pi, pi): two exactly opposite
\* angles give -pi, never +pi.
C8_RangeClosedBelow ==
    Returned("short_angle_dist") =>
        /\ Rotates(kin.a0, kout.value, kin.a1)
        /\ -FullTurn <= 2 * kout.value
        /\ 2 * kout.value < FullTurn

\* C8's case: two exactly opposite angles, and the result is -pi.
C8_Witness ==
    /\ Returned("short_angle_dist")
    /\ (kin.a1 - kin.a0) % FullTurn = FullTurn \div 2
    /\ 2 * kout.value = -FullTurn

(***************************************************************************)
(* Properties of the memoization cache (SpecCache).                        *)
(***************************************************************************)
Instances == 1..Len(tracklets)

\* C3: the cache is never carried across structurally different tracklets:
\* a prefix or a truncation is a new instance with its own empty cache, so
\* that a value an estimator stored for one tracklet is never returned for a
\* tracklet with a different detection sequence: whatever an estimator
\* returns for an instance is the aggregate of that instance's detections.
C3_CacheNeverCarriedOver ==
    ret # None =>
        ret.value = ComputeAggregate(ret.key, tracklets[ret.tracklet].detections)

\* Each aggregate is computed at most once per instance, and the value of
\* the last call is the one stored under its own key.
C4_StoredOnce ==
    /\ \A i \in Instances : \A k \in CacheKeys : computed[i][k] <= 1
    /\ ret # None =>
           /\ ret.key \in DOMAIN heap[tracklets[ret.tracklet].cache_]
           /\ heap[tracklets[ret.tracklet].cache_][ret.key] = ret.value

\* The step is an estimator call (a repeated call that the cache answers
\* again changes nothing and is no step).
EstimatorCalled ==
    /\ ret' # None
    /\ \/ ret = None
       \/ <<ret'.tracklet, ret'.key, ret'.hit>> # <<ret.tracklet, ret.key, ret.hit>>

\* A step that is an estimator call: on a stored key it returns the stored
\* value and computes and stores nothing; otherwise it computes once and
\* stores under its own key.  No step changes a stored entry, and a step
\* adds at most the entry of the estimator called.
C4_StepKeepsEntries ==
    /\ \A c \in 1..Len(heap) : \A k \in DOMAIN heap'[c] :
           IF k \in DOMAIN heap[c]
           THEN heap'[c][k] = heap[c][k]
           ELSE /\ ret' # None
                /\ ret'.key = k
                /\ tracklets[ret'.tracklet].cache_ = c
    /\ \A c \in 1..Len(heap) : DOMAIN heap[c] \subseteq DOMAIN heap'[c]
    /\ EstimatorCalled =>
           LET i == ret'.tracklet
               k == ret'.key
               c == tracklets[i].cache_
           IN  IF k \in DOMAIN heap[c]
               THEN /\ ret'.value = heap[c][k]
                    /\ computed' = computed
                    /\ heap' = heap
               ELSE /\ computed'[i][k] = computed[i][k] + 1
                    /\ \A k2 \in CacheKeys \ {k} : computed'[i][k2] = computed[i][k2]
                    /\ DOMAIN heap'[c] = DOMAIN heap[c] \cup {k}

\* C4: for one tracklet instance each of the three aggregates is computed
\* at most once: the first call stores its result under the estimator's own
\* key (also the undefined None and the default 0.0), every later call
\* returns the stored value without recomputation, and a call of one
\* estimator never adds or changes the entry of another.
C4_ComputedAtMostOnce == []C4_StoredOnce /\ [][C4_StepKeepsEntries]_vars

\* C4's case: an instance without tagged detections whose median identity,
\* the undefined None, was computed once, and a later call that the cache
\* answered with it.
C4_Witness ==
    /\ ret # None
    /\ ret.key = "track_median_id"
    /\ ret.hit
    /\ ret.value = NoBits
    /\ computed[ret.tracklet]["track_median_id"] = 1
    /\ DOMAIN heap[tracklets[ret.tracklet].cache_] = CacheKeys

(***************************************************************************)
(* Properties of the pipeline (Spec).                                      *)
(***************************************************************************)
Labels(samples) == [k \in 1..Len(samples) |-> samples[k][2]]
CountLabel(samples, label) ==
    Cardinality({k \in 1..Len(samples) : samples[k][2] = label})

\* One ground-truth track of three TaggedBee detections in the frames
\* 1, 2, 3 of a stream of three frames that hold nothing else.
C1_Scenario ==
    /\ Len(world.frames) = 3
    /\ Len(world.gt_tracks) = 1
    /\ Len(world.gt_tracks[1].detections) = 3
    /\ \A k \in 1..3 :
           /\ world.gt_tracks[1].detections[k].detection_type = "TaggedBee"
           /\ world.gt_tracks[1].detections[k].frame_id = world.frames[k].frame_id
           /\ world.frames[k].frame_detections = <<world.gt_tracks[1].detections[k]>>

\* C1, as stated: in that scenario the run returns exactly 4 samples, none
\* of them negative, and reports a positive count of 2.
C1_CountsAsStated ==
    (pc = "done" /\ C1_Scenario) =>
        /\ Len(results) = 4
        /\ CountLabel(results, 0) = 0
        /\ n_positives = 2

\* C1, amended: in that scenario the run returns exactly 4 samples, none of
\* them negative, and reports a positive count of 4: each of the two
\* consecutive pairs gives a label-1 sample under both decay depths.
C1_FourPositives ==
    (pc = "done" /\ C1_Scenario) =>
        /\ Len(results) = 4
        /\ CountLabel(results, 0) = 0
        /\ CountLabel(results, 1) = 4
        /\ n_positives = 4

\* C1's case: the run over that scenario has returned.
C1_Witness == pc = "done" /\ C1_Scenario /\ Len(results) = 4

\* The type pairs the policy excludes, in either order.
ExcludedPairs ==
    {{"TaggedBee", "UntaggedBee"}, {"BeeOnGlass", "BeeInCell"},
     {"BeeOnGlass", "TaggedBee"}}

\* The frame of next_det immediately follows the frame of det in the stream.
FramesAdjacent(det, next_det) ==
    \E j \in 1..(Len(world.frames) - 1) :
        /\ world.frames[j].frame_id = det.frame_id
        /\ world.frames[j + 1].frame_id = next_det.frame_id

\* next_det is the true follow-up of det: the next detection of the same
\* track, in the next frame, over a transition the policy allows.
TrueFollowUp(det, next_det) ==
    /\ \E t \in 1..Len(world.gt_tracks) :
           \E i \in 1..(Len(world.gt_tracks[t].detections) - 1) :
               /\ world.gt_tracks[t].detections[i] = det
               /\ world.gt_tracks[t].detections[i + 1] = next_det
    /\ FramesAdjacent(det, next_det)
    /\ {det.detection_type, next_det.detection_type} \notin ExcludedPairs

\* A label-1 sample names, in its debug tuple, a ground-truth detection and
\* its true follow-up.
PositiveBacked(sample) ==
    \E t \in 1..Len(world.gt_tracks) :
        \E i \in 1..(Len(world.gt_tracks[t].detections) - 1) :
            LET det == world.gt_tracks[t].detections[i]
                next_det == world.gt_tracks[t].detections[i + 1]
            IN  /\ TrueFollowUp(det, next_det)
                /\ sample[3][1] = det.frame_id
                /\ sample[3][2] = det.detection_index
                /\ sample[3][5] = next_det.detection_index

\* C5: a follow-up mapping entry, and therefore a positive sample, exists
\* for a ground-truth detection only if the next detection of the same track
\* lies in the frame that immediately follows in the stream and the type
\* transition is not policy-excluded; a TaggedBee -> UntaggedBee pair of
\* consecutive frames gets no entry and no positive sample.
C5_FollowUpOnlyIfAdjacentAndValid ==
    /\ \A key \in DOMAIN follow_up_detection_map :
           \E t \in 1..Len(world.gt_tracks) :
               \E i \in 1..Len(world.gt_tracks[t].detections) :
                   /\ DetectionKey(world.gt_tracks[t].detections[i]) = key
                   /\ TrueFollowUp(world.gt_tracks[t].detections[i],
                                   follow_up_detection_map[key])
    /\ \A u \in 1..Len(future_results) :
           /\ future_results[u].follow_up_detection # None =>
                  TrueFollowUp(
                      future_results[u].tracklet.detections[
                          Len(future_results[u].tracklet.detections)],
                      future_results[u].follow_up_detection)
           /\ \A k \in 1..Len(future_results[u].result) :
                  future_results[u].result[k][2] = 1 =>
                      PositiveBacked(future_results[u].result[k])
    /\ \A k \in 1..Len(results) : results[k][2] = 1 => PositiveBacked(results[k])
    /\ \A t \in 1..Len(world.gt_tracks) :
           \A i \in 1..(Len(world.gt_tracks[t].detections) - 1) :
               LET det == world.gt_tracks[t].detections[i]
                   next_det == world.gt_tracks[t].detections[i + 1]
               IN  (det.detection_type = "TaggedBee"
                    /\ next_det.detection_type = "UntaggedBee") =>
                       /\ DetectionKey(det) \notin DOMAIN follow_up_detection_map
                       /\ \A k \in 1..Len(results) :
                              results[k][2] = 1 => results[k][3][1] # det.frame_id

\* C5's case: a finished run over a track that goes TaggedBee ->
\* UntaggedBee between the consecutive frames 1 and 2 and stays untagged in
\* frame 3: no entry for the first pair, positives for the second only.
C5_Witness ==
    /\ pc = "done"
    /\ Len(world.gt_tracks[1].detections) = 3
    /\ world.gt_tracks[1].detections[1].detection_type = "TaggedBee"
    /\ world.gt_tracks[1].detections[2].detection_type = "UntaggedBee"
    /\ FramesAdjacent(world.gt_tracks[1].detections[1],
                      world.gt_tracks[1].detections[2])
    /\ DetectionKey(world.gt_tracks[1].detections[1])
           \notin DOMAIN follow_up_detection_map
    /\ DetectionKey(world.gt_tracks[1].detections[2])
           \in DOMAIN follow_up_detection_map
    /\ CountLabel(results, 1) = 2

\* The detection of the stream with this frame id and detection index (the
\* streams of the model number the detections of a frame uniquely).
StreamDetection(frame_id, detection_index) ==
    CHOOSE d \in UNION {{world.frames[j].frame_detections[k] :
                            k \in 1..Len(world.frames[j].frame_detections)} :
                        j \in 1..Len(world.frames)} :
        d.frame_id = frame_id /\ d.detection_index = detection_index

\* The frame id that follows frame_id in the stream.
FrameAfter(frame_id) ==
    LET j == CHOOSE i \in 1..(Len(world.frames) - 1) :
                 world.frames[i].frame_id = frame_id
    IN  world.frames[j + 1].frame_id

\* distance(det, cand) / (cand.timestamp - det.timestamp) <= limit, from
\* the coordinates: either the signed time difference is not positive (the
\* quotient is then not positive) or the squares compare.
WithinLimit(det, cand, limit) ==
    LET dx == cand.x_hive.num - det.x_hive.num
        dy == cand.y_hive.num - det.y_hive.num
        dt == cand.timestamp_posix - det.timestamp_posix
    IN  dt > 0 => dx * dx + dy * dy <= (limit * dt) * (limit * dt)

\* C6: no negative sample of the returned dataset violates the hard limit:
\* for every label-0 sample the first feature component, the distance
\* between the tracklet's last detection and the candidate divided by their
\* signed temporal distance, does not exceed the limit, at both depths.
C6_NegativesWithinHardLimit ==
    \A k \in 1..Len(results) :
        results[k][2] = 0 =>
            LET first == results[k][1][1]
                limit == world.distance_per_second_hard_limit
                det == StreamDetection(results[k][3][1], results[k][3][2])
                cand == StreamDetection(FrameAfter(results[k][3][1]), results[k][3][5])
            IN  /\ first.den > 0 =>
                       first.sq <= (limit * first.den) * (limit * first.den)
                /\ WithinLimit(det, cand, limit)

\* C6's case: a finished run in which a candidate beyond the hard limit was
\* pruned, while negatives were kept, one of them exactly on the limit.
C6_Witness ==
    /\ pc = "done"
    /\ \E u \in 1..Len(future_results) :
           \E c \in 1..Len(future_results[u].candidate_detections) :
               /\ future_results[u].follow_up_detection = None
               /\ ~WithinLimit(
                      future_results[u].tracklet.detections[
                          Len(future_results[u].tracklet.detections)],
                      future_results[u].candidate_detections[c],
                      world.distance_per_second_hard_limit)
    /\ CountLabel(results, 0) > 0

\* What C9 says one unit returns, as (label, candidate index) pairs: per
\* depth, the follow-up if there is one, then every candidate that is not
\* the follow-up (frame id, type, index) and lies within the hard limit.
StatedUnitOutput(f) ==
    LET last == f.tracklet.detections[Len(f.tracklet.detections)]
        fu == f.follow_up_detection
        cands == f.candidate_detections
        kept == SelectSeqBy(cands,
                    [k \in 1..Len(cands) |->
                        /\ ~(fu # None /\ DetectionKey(cands[k]) = DetectionKey(fu))
                        /\ WithinLimit(last, cands[k],
                                       f.distance_per_second_hard_limit)])
        positive == IF fu # None THEN << <<1, fu.detection_index>> >> ELSE <<>>
        depth == positive \o [k \in 1..Len(kept) |-> <<0, kept[k].detection_index>>]
    IN  depth \o depth

\* C9: a unit's output is, for each of the two decay depths (the tracklet as
\* given, then truncated to its last detection), one label-1 sample iff a
\* follow-up was passed, plus one label-0 sample per candidate that is not
\* the follow-up and does not exceed the hard limit, and nothing else.
C9_UnitOutput ==
    \A u \in 1..Len(future_results) :
        future_results[u].state = "done" =>
            LET f == future_results[u]
                half == Len(f.result) \div 2
            IN  /\ [k \in 1..Len(f.result) |-> <<f.result[k][2], f.result[k][3][5]>>]
                       = StatedUnitOutput(f)
                /\ \A k \in 1..Len(f.result) :
                       /\ Len(f.result[k][1]) = 18
                       /\ f.result[k][1][11].den =
                              IF k <= half THEN Min(5, Len(f.tracklet.detections))
                              ELSE 1

\* C9's case: a finished unit with a history of two detections, a true
\* follow-up and a second candidate that is kept as a negative.
C9_Witness ==
    \E u \in 1..Len(future_results) :
        /\ future_results[u].state = "done"
        /\ future_results[u].follow_up_detection # None
        /\ Len(future_results[u].tracklet.detections) >= 2
        /\ Len(future_results[u].candidate_detections) = 2
        /\ Labels(future_results[u].result) = <<1, 0, 1, 0>>

RECURSIVE ConcatResults(_, _)
\* The outputs of the first n units, concatenated in submission order.
ConcatResults(fs, n) ==
    IF n = 0 THEN <<>> ELSE ConcatResults(fs, n - 1) \o fs[n].result

\* The detections of the frames before the last, in stream order, each with
\* the detections of the frame after it: one unit is due for each.
RECURSIVE DueUnits(_)
DueUnits(j) ==
    IF j >= Len(world.frames) THEN <<>>
    ELSE [k \in 1..Len(world.frames[j].frame_detections) |->
             [detection |-> world.frames[j].frame_detections[k],
              candidates |-> world.frames[j + 1].frame_detections]]
         \o DueUnits(j + 1)

\* C10: the returned dataset does not depend on how the pool workers
\* interleave: the run returns only after every submitted unit has
\* completed, and the samples are the concatenation of every unit's output,
\* each exactly once, with the total, positive and negative counts of that
\* concatenation.
C10_OrderIndependent ==
    /\ n_retrieved <= Len(future_results)
    /\ results = ConcatResults(future_results, n_retrieved)
    /\ \A u \in 1..n_retrieved : future_results[u].state = "done"
    /\ pc = "done" =>
           /\ n_retrieved = Len(future_results)
           /\ Len(future_results) = Len(DueUnits(1))
           /\ \A u \in 1..Len(future_results) :
                  LET f == future_results[u]
                  IN  /\ f.state = "done"
                      /\ f.tracklet.detections[Len(f.tracklet.detections)]
                             = DueUnits(1)[u].detection
                      /\ f.candidate_detections = DueUnits(1)[u].candidates
                      /\ f.result = generate_detection_features_for_frame(
                                        f.tracklet, f.follow_up_detection,
                                        f.candidate_detections,
                                        f.distance_per_second_hard_limit)
           /\ n_positives = CountLabel(results, 1)
           /\ Len(results) - n_positives = CountLabel(results, 0)

\* C10's case: the main thread waits for the first unit while a unit
\* submitted after it has already completed with samples.
C10_Witness ==
    /\ pc = "retrieve"
    /\ n_retrieved = 0
    /\ \E u \in 2..Len(future_results) :
           /\ future_results[1].state = "running"
           /\ future_results[u].state = "done"
           /\ Len(future_results[u].result) > 0

\* The three sequences of a tracklet have one length, at least 1.
LengthsAgree(tracklet) ==
    /\ Len(tracklet.detections) >= 1
    /\ Len(tracklet.timestamps) = Len(tracklet.detections)
    /\ Len(tracklet.frame_ids) = Len(tracklet.detections)

\* frame_ids[i] is the frame id of detections[i] at every position.
FrameIdsParallel(tracklet) ==
    \A i \in 1..Len(tracklet.detections) :
        i <= Len(tracklet.frame_ids) =>
            tracklet.frame_ids[i] = tracklet.detections[i].frame_id

\* The tracklet of the u-th submitted unit ends with the detection of the
\* frame before that the unit was created for.
LastIsUnitDetection(u) ==
    LET tracklet == future_results[u].tracklet
    IN  tracklet.detections[Len(tracklet.detections)] = DueUnits(1)[u].detection

\* C11: every tracklet submitted in a work unit, a prefix of a ground-truth
\* track or a singleton synthesized for a detection without history, keeps
\* the parallel-sequence invariant: detections, timestamps and frame_ids
\* have the same length >= 1, its last detection is the previous-frame
\* detection the unit was created for, and frame_ids[i] is the frame id of
\* detections[i] at every position i.
C11_ParallelSequences ==
    \A u \in 1..Len(future_results) :
        /\ LengthsAgree(future_results[u].tracklet)
        /\ LastIsUnitDetection(u)
        /\ FrameIdsParallel(future_results[u].tracklet)

=============================================================================
